---- MODULE Spec2Model ----
(***************************************************************************)
(* Merkle partial proofs: the chunk store (Backend), the proof engine      *)
(* (Proof<T>) and the type overlay (MerkleTreeOverlay) of lightclient/proof *)
(***************************************************************************)
EXTENDS Integers, Sequences, FiniteSets, TLC

(* ------------------------------ bounds --------------------------------- *)
\* largest node index a SerializedProof handed to load may name (Spec)
MaxIndex == 4
\* largest node index of the stores SpecStore starts from
MaxStoreIndex == 10
\* largest value of a data byte handed to load / set_bytes
MaxByte == 1
\* largest number of indices of a SerializedProof handed to load
MaxProofLen == 1

\* deepest tree level SpecLevel starts from
MaxLevel == 2

(* --------------------------- program constants ------------------------- *)
BYTES_PER_CHUNK == 32

(* ------------------------------ chunks --------------------------------- *)
\* a chunk of BYTES_PER_CHUNK equal bytes
UniformChunk(b) == [i \in 1..BYTES_PER_CHUNK |-> b]
\* the chunks a caller supplies as data
DataChunks == {UniformChunk(b) : b \in 0..MaxByte}
\* Option::None of Backend::get
None == <<>>

\* SHA-256 as a collision-free function: the digest byte at each position is
\* an injective pairing of the two input bytes at that position, shifted above
\* every data byte so that no digest equals a data chunk.
HashPair(a, b) == ((a + b) * (a + b + 1)) \div 2 + b + MaxByte + 1
hash_childrenMut(left, right) == [i \in 1..BYTES_PER_CHUNK |-> HashPair(right[i], left[i])]
hash_children(left, right) == [i \in 1..BYTES_PER_CHUNK |-> HashPair(left[i], right[i])]

(* --------------------------- tree arithmetic --------------------------- *)
\* (left sibling, right sibling, parent) of a node; the parent of 0 is 0
expand_tree_index(index) ==
    LET parent == IF index = 0 THEN 0 ELSE (index - 1) \div 2
    IN  [left |-> 2 * parent + 1, right |-> 2 * parent + 2, parent |-> parent]
\* the other child of index's parent (index > 0)
sibling_index(index) == IF index % 2 = 1 THEN index + 1 ELSE index - 1
RECURSIVE Pow2(_)
Pow2(n) == IF n = 0 THEN 1 ELSE 2 * Pow2(n - 1)
\* the smallest power of two that is >= n
RECURSIVE NextPow2From(_, _)
NextPow2From(p, n) == IF p >= n THEN p ELSE NextPow2From(2 * p, n)
next_power_of_two(n) == NextPow2From(1, n)
\* log2 of an exact power of two
RECURSIVE log_base_two(_)
log_base_two(n) == IF n <= 1 THEN 0 ELSE 1 + log_base_two(n \div 2)
\* the left-most leaf of the subtree of the given height rooted at root
left_most_leaf(root, h) == (root + 1) * Pow2(h) - 1
\* depth of a local index: the d with 2^d - 1 <= local < 2^(d+1) - 1
RECURSIVE DepthOf(_)
DepthOf(local) == IF local = 0 THEN 0 ELSE 1 + DepthOf((local - 1) \div 2)
\* the general index of subtree-local index `local` under subtree root `root`
subtree_index_to_general(root, local) ==
    LET d == DepthOf(local)
    IN  (root + 1) * Pow2(d) - 1 + (local - (Pow2(d) - 1))

(* ------------------------------ Backend -------------------------------- *)
EmptyDb == [i \in {} |-> None]
get(d, index) == IF index \in DOMAIN d THEN d[index] ELSE None
insert(d, index, chunk) == [i \in (DOMAIN d) \cup {index} |-> IF i = index THEN chunk ELSE d[i]]
nodes(d) == DOMAIN d
contains_node(d, index) == index \in DOMAIN d

\* PathElement::Index(n) and PathElement::Ident(s)
Index(n) == [k |-> "Index", n |-> n, s |-> ""]
Ident(str) == [k |-> "Ident", n |-> 0, s |-> str]
NoElem == Ident("")

\* results: a unit Ok, an error value, or a panic (fault)
OkUnit == [tag |-> "Ok", err |-> "", idx |-> 0, el |-> NoElem]
ChunkNotLoaded(i) == [tag |-> "Err", err |-> "ChunkNotLoaded", idx |-> i, el |-> NoElem]
IndexOutOfBounds(i) == [tag |-> "Err", err |-> "IndexOutOfBounds", idx |-> i, el |-> NoElem]
InvalidPath(e) == [tag |-> "Err", err |-> "InvalidPath", idx |-> 0, el |-> e]
EmptyPath == [tag |-> "Err", err |-> "EmptyPath", idx |-> 0, el |-> NoElem]
Panic == [tag |-> "Panic", err |-> "", idx |-> 0, el |-> NoElem]

\* the per-node check of is_valid: FALSE when the check of `node` fails
NodeChecked(node) == node > 1
NodeValid(d, node) ==
    LET e == expand_tree_index(node) IN
    IF NodeChecked(node)
    THEN LET left == get(d, e.left)
             right == get(d, e.right)
             parent == get(d, e.parent)
         IN  IF left # None /\ right # None /\ parent # None
             THEN hash_children(left, right) = parent
             ELSE FALSE
    ELSE TRUE
\* "true" / "false" / "panic" (the expect on a missing root)
is_valid(d, root) ==
    IF \E node \in nodes(d) : ~NodeValid(d, node) THEN "false"
    ELSE IF get(d, 0) = None THEN "panic"
    ELSE IF root = get(d, 0) THEN "true" ELSE "false"

RECURSIVE SortDesc(_)
SortDesc(S) ==
    IF S = {} THEN <<>>
    ELSE LET m == CHOOSE x \in S : \A y \in S : y <= x
         IN  <<m>> \o SortDesc(S \ {m})

\* the guard of fill's loop body
FillGuardMut(d, e) ==
    contains_node(d, e.left) /\ contains_node(d, e.right)
        /\ (~contains_node(d, e.parent) \/ e.parent > 0)
FillGuard(d, e) ==
    contains_node(d, e.left) /\ contains_node(d, e.right) /\ ~contains_node(d, e.parent)
\* the worklist after fill's loop body inserted a parent
FillPushMut(nds, parent) == nds
FillPush(nds, parent) == Append(nds, parent)

\* fill's while loop; position is 0-based as in the source
RECURSIVE FillLoop(_, _, _)
FillLoop(d, nds, position) ==
    IF ~(position < Len(nds)) THEN [db |-> d, res |-> OkUnit]
    ELSE LET e == expand_tree_index(nds[position + 1]) IN
         IF FillGuard(d, e)
         THEN IF get(d, e.left) = None THEN [db |-> d, res |-> ChunkNotLoaded(e.left)]
              ELSE IF get(d, e.right) = None THEN [db |-> d, res |-> ChunkNotLoaded(e.right)]
              ELSE FillLoop(insert(d, e.parent, hash_children(get(d, e.left), get(d, e.right))),
                            FillPush(nds, e.parent), position + 1)
         ELSE FillLoop(d, nds, position + 1)
fill(d) == FillLoop(d, SortDesc(nodes(d)), 0)

\* the guard of refresh's loop body
RefreshGuard(d, e) == contains_node(d, e.left) /\ contains_node(d, e.right)
\* refresh's while loop: nodes[position] panics past the end of the worklist
RECURSIVE RefreshLoop(_, _, _)
RefreshLoop(d, nds, position) ==
    IF ~(position < Len(nds)) THEN [db |-> d, res |-> Panic]
    ELSE IF ~(nds[position + 1] > 0) THEN [db |-> d, res |-> OkUnit]
    ELSE LET e == expand_tree_index(nds[position + 1]) IN
         IF RefreshGuard(d, e)
         THEN IF get(d, e.left) = None THEN [db |-> d, res |-> ChunkNotLoaded(e.left)]
              ELSE IF get(d, e.right) = None THEN [db |-> d, res |-> ChunkNotLoaded(e.right)]
              ELSE RefreshLoop(insert(d, e.parent, hash_children(get(d, e.left), get(d, e.right))),
                               Append(nds, e.parent), position + 1)
         ELSE RefreshLoop(d, nds, position + 1)
refresh(d) == RefreshLoop(d, SortDesc(nodes(d)), 0)

\* nodes.sort_by(|a, b| b.cmp(a)) on the vector nodes() returns, whose order
\* is the HashMap's: a stable descending sort
RECURSIVE InsertDesc(_, _)
InsertDesc(sorted, x) ==
    IF sorted = <<>> THEN <<x>>
    ELSE IF x > Head(sorted) THEN <<x>> \o sorted
    ELSE <<Head(sorted)>> \o InsertDesc(Tail(sorted), x)
RECURSIVE sort_by(_)
sort_byMut(keys) == keys
sort_by(keys) ==
    IF keys = <<>> THEN <<>>
    ELSE InsertDesc(sort_by(SubSeq(keys, 1, Len(keys) - 1)), keys[Len(keys)])
\* fill and refresh when nodes() enumerates the keys in the order `keys`
fill_in(d, keys) == FillLoop(d, sort_by(keys), 0)
refresh_in(d, keys) == RefreshLoop(d, sort_by(keys), 0)

(* --------------------------- type overlay ------------------------------ *)
\* the types implementing MerkleTreeOverlay: primitives and collections
Basic(bits) == [kind |-> "basic", bits |-> bits]
VariableList(elem, n) == [kind |-> "list", elem |-> elem, N |-> n]
FixedVector(elem, n) == [kind |-> "vector", elem |-> elem, N |-> n]
U64 == Basic(64)
U128 == Basic(128)
U256 == Basic(256)

Node(index, ident, size, offset, h, isl) ==
    [index |-> index, ident |-> ident, size |-> size, offset |-> offset,
     height |-> h, is_list |-> isl]
NoNode == Node(0, NoElem, 0, 0, 0, FALSE)
NodeOk(n) == [tag |-> "Ok", err |-> "", idx |-> 0, el |-> NoElem, node |-> n]
NodeErr(e) == [tag |-> e.tag, err |-> e.err, idx |-> e.idx, el |-> e.el, node |-> NoNode]
\* the error of a failed get_node as a result value
ErrOf(r) == [tag |-> r.tag, err |-> r.err, idx |-> r.idx, el |-> r.el]
replace_index(node, index) == [node EXCEPT !.index = index]

\* height() of a collection divides by items_per_chunk, which is 0 when the
\* element needs more than BYTES_PER_CHUNK bytes: the division panics, and so
\* does every call that reaches it
RECURSIVE height(_), min_repr_size(_), HeightFaults(_)
HeightFaults(t) ==
    /\ t.kind # "basic"
    /\ \/ HeightFaults(t.elem)
       \/ min_repr_size(t.elem) = 0
       \/ BYTES_PER_CHUNK \div min_repr_size(t.elem) = 0
height(t) ==
    IF t.kind = "basic" THEN 0
    ELSE LET items_per_chunk == BYTES_PER_CHUNK \div min_repr_size(t.elem)
             num_leaves == next_power_of_two(t.N \div items_per_chunk)
             data_tree_height == log_base_two(num_leaves)
         IN  IF t.kind = "list" THEN data_tree_height + 1 ELSE data_tree_height
min_repr_size(t) ==
    IF t.kind = "basic" THEN t.bits \div 8
    ELSE IF height(t) > 0 THEN 32 ELSE min_repr_size(t.elem) * t.N
is_list(t) == t.kind = "list"

\* the terminal node of a collection at `position`
CollectionLeafMut(t, el, position) ==
    Node(Pow2(height(t)) + (position \div (BYTES_PER_CHUNK \div min_repr_size(t.elem))) - 1,
         el, min_repr_size(t.elem), 0, height(t.elem), is_list(t.elem))
CollectionLeaf(t, el, position) ==
    LET items_per_chunk == BYTES_PER_CHUNK \div min_repr_size(t.elem)
    IN  Node(Pow2(height(t)) + (position \div items_per_chunk) - 1,
             el,
             min_repr_size(t.elem),
             (position % items_per_chunk) * min_repr_size(t.elem),
             height(t.elem),
             is_list(t.elem))

\* the identifier a variable-length collection answers with its length node
IsLenIdentMut(t, el) == el.s = "len"
IsLenIdent(t, el) == t.kind = "list" /\ el.s = "len"
RECURSIVE get_node(_, _)
get_node(t, path) ==
    IF t.kind = "basic"
    THEN IF Len(path) = 0
         THEN NodeOk(Node(0, Ident(""), t.bits \div 32, 0, 0, FALSE))
         ELSE NodeErr(InvalidPath(path[1]))
    ELSE IF Len(path) = 0 THEN NodeErr(EmptyPath)
    ELSE IF path[1].k = "Index"
    THEN LET position == path[1].n IN
         IF position >= t.N THEN NodeErr(IndexOutOfBounds(position))
         ELSE IF HeightFaults(t) THEN NodeErr(Panic)
         ELSE LET first_leaf == left_most_leaf(0, height(t))
                  items_per_chunk == BYTES_PER_CHUNK \div min_repr_size(t.elem)
                  leaf_index == first_leaf + (position \div items_per_chunk)
              IN  IF Len(path) = 1
                  THEN NodeOk(CollectionLeaf(t, path[1], position))
                  ELSE LET node == get_node(t.elem, Tail(path)) IN
                       IF node.tag # "Ok" THEN node
                       ELSE NodeOk(replace_index(node.node,
                                subtree_index_to_general(leaf_index, node.node.index)))
    ELSE IF IsLenIdent(t, path[1])
         THEN NodeOk(Node(2, Ident("len"), 32, 0, 0, FALSE))
         ELSE NodeErr(InvalidPath(path[1]))

\* a user struct of primitive fields that share one chunk: the generated
\* overlay names field j FieldNames[j] and packs the fields in declaration order
Struct(fields) == [kind |-> "struct", fields |-> fields]
FieldNames == <<"a", "b", "c", "d", "e", "f">>
RECURSIVE FieldOffset(_, _)
FieldOffsetMut(fields, j) == 0
FieldOffset(fields, j) ==
    IF j <= 1 THEN 0 ELSE FieldOffset(fields, j - 1) + min_repr_size(fields[j - 1])
struct_get_node(t, path) ==
    IF Len(path) = 0 THEN NodeErr(EmptyPath)
    ELSE IF \E j \in 1..Len(t.fields) : path[1] = Ident(FieldNames[j])
    THEN LET j == CHOOSE j \in 1..Len(t.fields) : path[1] = Ident(FieldNames[j]) IN
         IF Len(path) = 1
         THEN NodeOk(Node(0, path[1], min_repr_size(t.fields[j]),
                          FieldOffset(t.fields, j), 0, FALSE))
         ELSE get_node(t.fields[j], Tail(path))
    ELSE NodeErr(InvalidPath(path[1]))

(* ---------------------------- proof engine ----------------------------- *)
SerializedProof(indices, chunks) == [indices |-> indices, chunks |-> chunks]
NoProof == SerializedProof(<<>>, <<>>)

\* load's loop over proof.indices; i is 0-based; the slice panics when
\* proof.chunks is shorter than (i + 1) * BYTES_PER_CHUNK
\* the chunk load stores for the i-th index (0-based)
LoadChunkMut(proof, i) == SubSeq(proof.chunks, 1, BYTES_PER_CHUNK)
LoadChunk(proof, i) ==
    SubSeq(proof.chunks, i * BYTES_PER_CHUNK + 1, (i + 1) * BYTES_PER_CHUNK)
RECURSIVE LoadLoop(_, _, _)
LoadLoop(d, proof, i) ==
    IF ~(i < Len(proof.indices)) THEN [db |-> d, res |-> OkUnit]
    ELSE IF (i + 1) * BYTES_PER_CHUNK > Len(proof.chunks) THEN [db |-> d, res |-> Panic]
    ELSE LoadLoop(insert(d, proof.indices[i + 1], LoadChunk(proof, i)), proof, i + 1)
load(d, proof) == LoadLoop(d, proof, 0)
\* Proof::new: load into an empty cache
new(proof) == load(EmptyDb, proof)

Contains(seq, x) == \E k \in 1..Len(seq) : seq[k] = x

\* whether extract's loop body appends the sibling
ExtractTakesMut(indices, left, right) == Contains(indices, left) /\ Contains(indices, right)
ExtractTakes(indices, left, right) == ~(Contains(indices, left) /\ Contains(indices, right))
\* the chunk extract's loop body appends for the sibling
ExtractChunkMut(d, sibling, visitor) == get(d, visitor)
ExtractChunk(d, sibling, visitor) == get(d, sibling)
\* extract's ascent
ExtractUpMut(visitor) == visitor \div 2 - 1
ExtractUp(visitor) == (visitor + 1) \div 2 - 1

\* indices.push(sibling)
ExtractPushMut(indices, sibling) == <<sibling>> \o indices
ExtractPush(indices, sibling) == Append(indices, sibling)

RECURSIVE ExtractLoop(_, _, _, _)
ExtractLoop(d, visitor, indices, chunks) ==
    IF ~(visitor > 0) THEN [res |-> OkUnit, sp |-> SerializedProof(indices, chunks)]
    ELSE LET sibling == sibling_index(visitor)
             left == 2 * sibling + 1
             right == 2 * sibling + 2
         IN  IF ExtractTakes(indices, left, right)
             THEN IF ExtractChunk(d, sibling, visitor) = None
                  THEN [res |-> ChunkNotLoaded(sibling), sp |-> NoProof]
                  ELSE ExtractLoop(d, ExtractUp(visitor), ExtractPush(indices, sibling),
                                   chunks \o ExtractChunk(d, sibling, visitor))
             ELSE ExtractLoop(d, ExtractUp(visitor), indices, chunks)
extract(d, t, path) ==
    IF Len(path) = 0 THEN [res |-> EmptyPath, sp |-> NoProof]
    ELSE LET node == get_node(t, path) IN
         IF node.tag # "Ok" THEN [res |-> ErrOf(node), sp |-> NoProof]
         ELSE LET visitor == node.node.index IN
              IF get(d, visitor) = None
              THEN [res |-> ChunkNotLoaded(visitor), sp |-> NoProof]
              ELSE ExtractLoop(d, visitor, <<visitor>>, get(d, visitor))

\* the first byte of the value of a node within its chunk
BeginOfMut(node) == 0
BeginOf(node) == node.offset
\* (chunk index, begin, end) of the value at path
bytes_at_path_helper(t, path) ==
    IF Len(path) = 0 THEN [res |-> EmptyPath, index |-> 0, begin |-> 0, end |-> 0]
    ELSE LET node == get_node(t, path) IN
         IF node.tag # "Ok" THEN [res |-> ErrOf(node), index |-> 0, begin |-> 0, end |-> 0]
         ELSE [res |-> OkUnit, index |-> node.node.index, begin |-> BeginOf(node.node),
               end |-> BeginOf(node.node) + node.node.size]

\* the slice [begin..end] of a chunk (0-based, end exclusive)
GetSliceMut(chunk, begin, end) == SubSeq(chunk, 1, end - begin)
GetSlice(chunk, begin, end) == SubSeq(chunk, begin + 1, end)
get_bytes(d, t, path) ==
    IF Len(path) = 0 THEN [res |-> EmptyPath, val |-> <<>>]
    ELSE LET h == bytes_at_path_helper(t, path) IN
         IF h.res.tag # "Ok" THEN [res |-> h.res, val |-> <<>>]
         ELSE IF get(d, h.index) = None THEN [res |-> ChunkNotLoaded(h.index), val |-> <<>>]
         ELSE IF h.end > Len(get(d, h.index)) THEN [res |-> Panic, val |-> <<>>]
         ELSE [res |-> OkUnit, val |-> GetSlice(get(d, h.index), h.begin, h.end)]

\* the closure of set_bytes: which positions i (0-based) take a byte of `bytes`
InRangeMut(i, begin, end) == i >= begin
InRange(i, begin, end) == i >= begin /\ i < end
\* the chunk set_bytes writes back
Splice(chunk, bytes, begin, end) ==
    [k \in 1..Len(chunk) |->
        IF InRange(k - 1, begin, end) THEN bytes[(k - 1) - begin + 1] ELSE chunk[k]]
\* bytes[i - begin] is out of range for some position of the chunk
SpliceFaults(chunk, bytes, begin, end) ==
    \E k \in 1..Len(chunk) : InRange(k - 1, begin, end) /\ (k - 1) - begin >= Len(bytes)

set_bytes(d, t, path, bytes) ==
    IF Len(path) = 0 THEN [db |-> d, res |-> EmptyPath]
    ELSE LET h == bytes_at_path_helper(t, path) IN
         IF h.res.tag # "Ok" THEN [db |-> d, res |-> h.res]
         ELSE IF get(d, h.index) = None THEN [db |-> d, res |-> ChunkNotLoaded(h.index)]
         ELSE IF SpliceFaults(get(d, h.index), bytes, h.begin, h.end) THEN [db |-> d, res |-> Panic]
         ELSE [db |-> insert(d, h.index, Splice(get(d, h.index), bytes, h.begin, h.end)),
               res |-> OkUnit]

root(d) == get(d, 0)

(* ------------------------------- state --------------------------------- *)
VARIABLES
    db,     \* Backend.db of the proof: NodeIndex -> chunk
    T,      \* the overlay type the Proof is instantiated with
    pre,    \* history: db before the last operation
    last    \* history: the last operation, its arguments and its result

vars == <<db, T, pre, last>>

\* the overlay types a Proof is instantiated with
TypeNames == {"TA", "TB"}
TypeDef(name) ==
    IF name = "TA" THEN VariableList(U128, 2)
    ELSE FixedVector(FixedVector(U256, 2), 2)

\* the inputs of the operations
MaxPos == 2
PathElems == {Index(p) : p \in 0..MaxPos} \cup {Ident("len")}
Paths == {<<>>} \cup {<<a>> : a \in PathElems} \cup {<<a, b>> : a \in PathElems, b \in PathElems}
ByteLens == {BYTES_PER_CHUNK \div 2, BYTES_PER_CHUNK, BYTES_PER_CHUNK + 1}
ByteStrings == {[i \in 1..n |-> b] : n \in ByteLens, b \in 0..MaxByte}
RECURSIVE SeqsUpTo(_, _)
SeqsUpTo(S, n) ==
    IF n = 0 THEN {<<>>}
    ELSE LET shorter == SeqsUpTo(S, n - 1)
         IN  shorter \cup {Append(q, x) : q \in {r \in shorter : Len(r) = n - 1}, x \in S}
RECURSIVE Flatten(_)
Flatten(cs) == IF cs = <<>> THEN <<>> ELSE Head(cs) \o Flatten(Tail(cs))
\* the depth of the whole tree of a type, and the nodes of that tree
RECURSIVE TreeDepth(_)
TreeDepth(t) == IF t.kind = "basic" THEN 0 ELSE height(t) + TreeDepth(t.elem)
TreeNodes(t) == 0..(Pow2(TreeDepth(t) + 1) - 2)
\* serialized proofs over the nodes of the tree of t: well formed, one byte
\* long, or one byte short
ProofsOver(indexSet, maxLen) ==
    {SerializedProof([k \in 1..Len(e) |-> e[k][1]],
                     LET flat == Flatten([k \in 1..Len(e) |-> e[k][2]])
                     IN  IF cut = 0 THEN flat
                         ELSE IF cut = 1 THEN flat \o <<0>>
                         ELSE SubSeq(flat, 1, Len(flat) - 1)) :
        e \in SeqsUpTo(indexSet \X DataChunks, maxLen) \ {<<>>},
        cut \in 0..2}
    \cup {NoProof}
Proofs(t) == ProofsOver((0..MaxIndex) \cap TreeNodes(t), MaxProofLen)

Op(op, path, bytes, rt, res, ret, val, sp) ==
    [op |-> op, path |-> path, bytes |-> bytes, root |-> rt, res |-> res, ret |-> ret,
     val |-> val, sp |-> sp]
NoOp == Op("none", <<>>, <<>>, None, OkUnit, "", <<>>, NoProof)
\* the caller holds no result of an earlier call
Idle == last.op = "none"

\* Backend::is_valid(root)
IsValid ==
    /\ Idle
    /\ \E rt \in DataChunks \cup (IF contains_node(db, 0) THEN {db[0]} ELSE {}) :
        /\ last' = Op("is_valid", <<>>, <<>>, rt, OkUnit, is_valid(db, rt), <<>>, NoProof)
        /\ pre' = db
        /\ UNCHANGED <<db, T>>

\* Backend::fill()
Fill ==
    LET r == fill(db) IN
    /\ Idle
    /\ db' = r.db
    /\ pre' = db
    /\ last' = Op("fill", <<>>, <<>>, None, r.res, "", <<>>, NoProof)
    /\ UNCHANGED T

\* Backend::refresh()
Refresh ==
    LET r == refresh(db) IN
    /\ Idle
    /\ db' = r.db
    /\ pre' = db
    /\ last' = Op("refresh", <<>>, <<>>, None, r.res, "", <<>>, NoProof)
    /\ UNCHANGED T

\* Proof::load(proof), the proof drawn from P
LoadFrom(P) ==
    /\ Idle
    /\ \E proof \in P :
        LET r == load(db, proof) IN
        /\ db' = r.db
        /\ pre' = db
        /\ last' = Op("load", <<>>, <<>>, None, r.res, "", <<>>, proof)
        /\ UNCHANGED T
Load == LoadFrom(Proofs(TypeDef(T)))

\* Proof::extract(path)
Extract ==
    /\ Idle
    /\ \E path \in Paths :
        LET r == extract(db, TypeDef(T), path) IN
        /\ last' = Op("extract", path, <<>>, None, r.res, "", <<>>, r.sp)
        /\ pre' = db
        /\ UNCHANGED <<db, T>>

\* Proof::get_bytes(path)
GetBytes ==
    /\ Idle
    /\ \E path \in Paths :
        LET r == get_bytes(db, TypeDef(T), path) IN
        /\ last' = Op("get_bytes", path, <<>>, None, r.res, "", r.val, NoProof)
        /\ pre' = db
        /\ UNCHANGED <<db, T>>

\* Proof::set_bytes(path, bytes)
SetBytes ==
    /\ Idle
    /\ \E path \in Paths, bytes \in ByteStrings :
        LET r == set_bytes(db, TypeDef(T), path, bytes) IN
        /\ db' = r.db
        /\ pre' = db
        /\ last' = Op("set_bytes", path, bytes, None, r.res, "", <<>>, NoProof)
        /\ UNCHANGED T

\* the caller takes the result of the call and is ready for the next one
Return ==
    /\ ~Idle
    /\ last' = NoOp
    /\ pre' = db
    /\ UNCHANGED <<db, T>>

\* Proof::default(): an empty cache
Init ==
    /\ db = EmptyDb
    /\ T \in TypeNames
    /\ pre = EmptyDb
    /\ last = NoOp
Next == Load \/ Fill \/ Refresh \/ IsValid \/ Extract \/ GetBytes \/ SetBytes \/ Return
Spec == Init /\ [][Next]_vars

(* ------------------------- independent vocabulary ----------------------- *)
ParentOf(n) == (n - 1) \div 2
LeftOf(p) == 2 * p + 1
RightOf(p) == 2 * p + 2
SiblingOf(n) == IF n % 2 = 1 THEN n + 1 ELSE n - 1
\* the chunk at p is the hash of its two present children
HashOfChildren(d, p) ==
    /\ LeftOf(p) \in DOMAIN d /\ RightOf(p) \in DOMAIN d /\ p \in DOMAIN d
    /\ d[p] = hash_children(d[LeftOf(p)], d[RightOf(p)])

(* C1: is_valid(root) returns true exactly when index 0 is present with a
   chunk equal to root and every present index n > 0 has its sibling and its
   parent present, the parent's chunk being H(left || right) of the pair. *)
ValidTree(d, rt) ==
    /\ 0 \in DOMAIN d /\ d[0] = rt
    /\ \A n \in DOMAIN d : n > 0 =>
          /\ SiblingOf(n) \in DOMAIN d
          /\ HashOfChildren(d, ParentOf(n))
C1_IsValidExact ==
    last.op = "is_valid" => ((last.ret = "true") <=> ValidTree(db, last.root))

(* C4: after fill() returns, every present index i > 0 whose sibling is also
   present has its parent present, and the parent's chunk equals
   H(left || right) of that pair. *)
C4_FillConsistent ==
    last.op = "fill" =>
        \A i \in DOMAIN db : (i > 0 /\ SiblingOf(i) \in DOMAIN db) =>
            HashOfChildren(db, ParentOf(i))
(* C4 as amended: after fill() returns, every present index i > 0 whose
   sibling is also present has its parent present, and the parent's chunk
   equals H(left || right) of that pair whenever the parent was absent before
   the call (a parent already present is kept as it was). *)
C4_FillConsistentCreated ==
    last.op = "fill" =>
        /\ last.res = OkUnit
        /\ \A i \in DOMAIN db : (i > 0 /\ SiblingOf(i) \in DOMAIN db) =>
            /\ ParentOf(i) \in DOMAIN db
            /\ ParentOf(i) \notin DOMAIN pre => HashOfChildren(db, ParentOf(i))
            /\ ParentOf(i) \in DOMAIN pre => db[ParentOf(i)] = pre[ParentOf(i)]
\* fill created a node and then that node's parent
C4_Witness ==
    /\ last.op = "fill"
    /\ \E i \in DOMAIN db \ DOMAIN pre :
          /\ i > 0 /\ SiblingOf(i) \in DOMAIN db
          /\ ParentOf(i) \notin DOMAIN pre /\ ParentOf(i) \in DOMAIN db

(* C5: fill() only creates entries: every entry present before the call is
   present and identical after it, and every entry it adds is at a previously
   absent index and equals H of that index's two present children. *)
C5_FillOnlyCreates ==
    last.op = "fill" =>
        /\ \A i \in DOMAIN pre : i \in DOMAIN db /\ db[i] = pre[i]
        /\ \A i \in DOMAIN db \ DOMAIN pre : HashOfChildren(db, i)
\* fill ran on a store holding a stale parent and also created an entry
C5_Witness ==
    /\ last.op = "fill"
    /\ DOMAIN db # DOMAIN pre
    /\ \E p \in DOMAIN pre :
          /\ LeftOf(p) \in DOMAIN pre /\ RightOf(p) \in DOMAIN pre
          /\ ~HashOfChildren(pre, p)

(* C6: whenever refresh() returns Ok, afterwards every index whose two
   children are both present is itself present with chunk H(left || right),
   whether that index was present, stale or absent before the call. *)
C6_RefreshConsistent ==
    (last.op = "refresh" /\ last.res.tag = "Ok") =>
        \A i \in DOMAIN db : i > 0 /\ SiblingOf(i) \in DOMAIN db =>
            HashOfChildren(db, ParentOf(i))

(* C2: on a store on which is_valid(r) is true, when extract(p) succeeds,
   loading the extracted proof into an empty Proof and calling fill() yields
   root() = r and is_valid(r) = true. *)
C2_ExtractSuffices ==
    (/\ last.op = "extract" /\ last.res = OkUnit
     /\ 0 \in DOMAIN db /\ is_valid(db, db[0]) = "true") =>
        LET loaded == new(last.sp)
            filled == fill(loaded.db)
        IN  /\ loaded.res = OkUnit
            /\ filled.res = OkUnit
            /\ root(filled.db) = db[0]
            /\ is_valid(filled.db, db[0]) = "true"
\* an extract of a node two levels below the root succeeded on a valid store
C2_Witness ==
    /\ last.op = "extract" /\ last.res = OkUnit
    /\ 0 \in DOMAIN db /\ is_valid(db, db[0]) = "true"
    /\ Len(last.sp.indices) >= 3
    /\ \E i \in DOMAIN db : i > 0 /\ db[i] # db[SiblingOf(i)]

\* the (index, chunk) pairs of a serialized proof and of a store
PairsOfProof(sp) ==
    {<<sp.indices[k], SubSeq(sp.chunks, (k - 1) * BYTES_PER_CHUNK + 1, k * BYTES_PER_CHUNK)>> :
        k \in 1..Len(sp.indices)}
PairsOfStore(d) == {<<i, d[i]>> : i \in DOMAIN d}
\* v and its ancestors below the root
RECURSIVE Branch(_)
Branch(v) == IF v = 0 THEN {} ELSE {v} \cup Branch(ParentOf(v))
\* the target and the sibling of every node on the way from it to the root
MinimalIndices(v) == {v} \cup {SiblingOf(x) : x \in Branch(v)}

(* C3: when the store holds exactly the target chunk of path p and the
   sibling chunk of every node on the way from the target to the root,
   extract(p), with or without a fill() before it, returns the same set of
   (index, chunk) pairs as the store was loaded with. *)
C3_ExtractRoundTrip ==
    (/\ last.op = "extract"
     /\ Len(last.path) > 0
     /\ get_node(TypeDef(T), last.path).tag = "Ok"
     /\ DOMAIN db = MinimalIndices(get_node(TypeDef(T), last.path).node.index)) =>
        LET again == extract(fill(db).db, TypeDef(T), last.path)
        IN  /\ last.res = OkUnit
            /\ Len(last.sp.chunks) = BYTES_PER_CHUNK * Len(last.sp.indices)
            /\ PairsOfProof(last.sp) = PairsOfStore(db)
            /\ again.res = OkUnit
            /\ Len(again.sp.chunks) = BYTES_PER_CHUNK * Len(again.sp.indices)
            /\ PairsOfProof(again.sp) = PairsOfStore(db)
\* extract ran on the minimal proof of a node two levels below the root
C3_Witness ==
    /\ last.op = "extract" /\ last.res = OkUnit
    /\ Len(last.path) > 0
    /\ get_node(TypeDef(T), last.path).tag = "Ok"
    /\ get_node(TypeDef(T), last.path).node.index >= 3
    /\ DOMAIN db = MinimalIndices(get_node(TypeDef(T), last.path).node.index)
    /\ fill(db).db # db

(* C7: from a store on which is_valid(r) is true, after a successful
   set_bytes that changes a byte of a present chunk, is_valid(r) is false
   until refresh() runs; after refresh(), is_valid(root()) is true and root()
   differs from r exactly when the written bytes differ from the originals. *)
C7_MutationLifecycle ==
    (/\ last.op = "set_bytes" /\ last.res = OkUnit
     /\ 0 \in DOMAIN pre /\ is_valid(pre, pre[0]) = "true") =>
        LET refreshed == refresh(db)
        IN  /\ db # pre => is_valid(db, pre[0]) = "false"
            /\ refreshed.res = OkUnit
            /\ is_valid(refreshed.db, root(refreshed.db)) = "true"
            /\ (root(refreshed.db) # pre[0]) <=> (db # pre)

\* the node a path resolves to under the proof's overlay
NodeAt(path) == get_node(TypeDef(T), path).node
Addressable(path) == Len(path) > 0 /\ get_node(TypeDef(T), path).tag = "Ok"
\* the (index, byte range) of two paths do not overlap
Disjoint(p, q) ==
    \/ NodeAt(p).index # NodeAt(q).index
    \/ NodeAt(p).offset + NodeAt(p).size <= NodeAt(q).offset
    \/ NodeAt(q).offset + NodeAt(q).size <= NodeAt(p).offset
BothChildrenPresent(d, i) == LeftOf(i) \in DOMAIN d /\ RightOf(i) \in DOMAIN d

(* C8: after set_bytes(p, b) succeeds with len(b) equal to the addressed size
   and refresh() then succeeds, get_bytes(p) returns b and get_bytes(q)
   returns the same bytes as before the set_bytes for every other
   addressable path q whose (index, byte range) does not overlap that of p. *)
C8_SetBytesLocality ==
    (/\ last.op = "set_bytes" /\ last.res = OkUnit
     /\ Len(last.bytes) = NodeAt(last.path).size
     /\ refresh(db).res = OkUnit) =>
        LET after == refresh(db).db
        IN  /\ get_bytes(after, TypeDef(T), last.path) = [res |-> OkUnit, val |-> last.bytes]
            /\ \A q \in Paths : (Addressable(q) /\ Disjoint(last.path, q)) =>
                  get_bytes(after, TypeDef(T), q) = get_bytes(pre, TypeDef(T), q)
(* C8 as amended: after set_bytes(p, b) succeeds with len(b) equal to the
   addressed size and refresh() then succeeds, get_bytes(p) returns b unless
   both children of p's chunk are present after the refresh, and get_bytes(q)
   returns the same bytes as before the set_bytes for every other addressable
   path q whose (index, byte range) does not overlap that of p and whose
   chunk does not have both children present after the refresh. *)
C8_SetBytesLocalityLeaves ==
    (/\ last.op = "set_bytes" /\ last.res = OkUnit
     /\ Len(last.bytes) = NodeAt(last.path).size
     /\ refresh(db).res = OkUnit) =>
        LET after == refresh(db).db
        IN  /\ ~BothChildrenPresent(after, NodeAt(last.path).index) =>
                  get_bytes(after, TypeDef(T), last.path) = [res |-> OkUnit, val |-> last.bytes]
            /\ \A q \in Paths :
                  (/\ Addressable(q) /\ Disjoint(last.path, q)
                   /\ ~BothChildrenPresent(after, NodeAt(q).index)) =>
                      get_bytes(after, TypeDef(T), q) = get_bytes(pre, TypeDef(T), q)
\* set_bytes changed half of a packed chunk whose other half is addressable,
\* and the refresh that follows rewrites the root
C8_Witness ==
    /\ last.op = "set_bytes" /\ last.res = OkUnit /\ db # pre
    /\ Len(last.bytes) = NodeAt(last.path).size
    /\ refresh(db).res = OkUnit /\ refresh(db).db # db
    /\ ~BothChildrenPresent(refresh(db).db, NodeAt(last.path).index)
    /\ \E q \in Paths :
          /\ Addressable(q) /\ Disjoint(last.path, q)
          /\ NodeAt(q).index = NodeAt(last.path).index
          /\ get_bytes(pre, TypeDef(T), q).res = OkUnit

(* C9: a successful set_bytes(p, b) changes only bytes [offset, offset+size)
   of the chunk at the resolved index: every other byte of that chunk, every
   other entry and the set of present indices are unchanged. *)
C9_SetBytesFrame ==
    (last.op = "set_bytes" /\ last.res = OkUnit) =>
        LET n == NodeAt(last.path) IN
        /\ DOMAIN db = DOMAIN pre
        /\ n.index \in DOMAIN pre
        /\ \A i \in DOMAIN db : i # n.index => db[i] = pre[i]
        /\ Len(db[n.index]) = Len(pre[n.index])
        /\ \A k \in 1..Len(pre[n.index]) :
              (k - 1 < n.offset \/ k - 1 >= n.offset + n.size) =>
                  db[n.index][k] = pre[n.index][k]
\* set_bytes wrote part of a chunk that has a stale-able ancestor present
C9_Witness ==
    /\ last.op = "set_bytes" /\ last.res = OkUnit /\ db # pre
    /\ NodeAt(last.path).size < BYTES_PER_CHUNK
    /\ Len(last.bytes) > NodeAt(last.path).size
    /\ ParentOf(NodeAt(last.path).index) \in DOMAIN db

(* C10: whenever set_bytes does not succeed (empty path, InvalidPath or
   IndexOutOfBounds from the overlay, ChunkNotLoaded, or len(bytes) different
   from the addressed size), the store is exactly as it was before the call. *)
C10_NoPartialMutation ==
    (/\ last.op = "set_bytes"
     /\ \/ last.res # OkUnit
        \/ Addressable(last.path) /\ Len(last.bytes) # NodeAt(last.path).size) =>
        db = pre

\* the error the overlay of t reports for a non-empty path, OkUnit when it
\* reports none: IndexOutOfBounds(k) at the first Index(k) with k >= N,
\* InvalidPath(e) at the first identifier e a collection does not know or the
\* first element e below a primitive
RECURSIVE OverlayError(_, _)
OverlayError(t, path) ==
    IF path = <<>> THEN OkUnit
    ELSE IF t.kind = "basic" THEN InvalidPath(path[1])
    ELSE IF path[1].k = "Index"
         THEN IF path[1].n >= t.N THEN IndexOutOfBounds(path[1].n)
              ELSE OverlayError(t.elem, Tail(path))
    ELSE IF t.kind = "list" /\ path[1].s = "len" THEN OkUnit ELSE InvalidPath(path[1])

(* C11: get_bytes(path) returns EmptyPath for an empty path; otherwise the
   overlay's own error (InvalidPath of the offending element,
   IndexOutOfBounds of the offending index) even when the chunk is absent;
   otherwise ChunkNotLoaded(index) when the resolved chunk is absent;
   otherwise exactly bytes [offset, offset+size) of the resolved chunk. *)
C11_GetBytesPrecedence ==
    last.op = "get_bytes" =>
        LET bad == OverlayError(TypeDef(T), last.path)
            n == NodeAt(last.path)
        IN  IF last.path = <<>> THEN last.res = EmptyPath
            ELSE IF bad # OkUnit THEN last.res = bad
            ELSE IF n.index \notin DOMAIN db THEN last.res = ChunkNotLoaded(n.index)
            ELSE /\ last.res = OkUnit
                 /\ Len(last.val) = n.size
                 /\ \A k \in 1..n.size : last.val[k] = db[n.index][n.offset + k]
\* get_bytes returned the upper half of a chunk whose two halves differ
C11_Witness ==
    /\ last.op = "get_bytes" /\ last.res = OkUnit
    /\ NodeAt(last.path).offset > 0
    /\ db[NodeAt(last.path).index][1] # last.val[1]

\* the siblings of the nodes on the way from v to the root that are absent from d
AbsentSiblings(d, v) == {SiblingOf(x) : x \in Branch(v)} \ DOMAIN d
\* the deepest node of a non-empty set of nodes no two of which share a level
Deepest(S) == CHOOSE x \in S : \A y \in S : y <= x

(* C12: extract(path) returns EmptyPath for an empty path, the overlay's error
   if path resolution fails, ChunkNotLoaded(v) if the target chunk v is
   absent, and otherwise ChunkNotLoaded(s) for the deepest absent sibling s on
   the walk from the target to the root; a SerializedProof it returns lists
   only indices whose chunks are present in the store. *)
C12_ExtractErrors ==
    last.op = "extract" =>
        LET bad == OverlayError(TypeDef(T), last.path)
            v == NodeAt(last.path).index
        IN  IF last.path = <<>> THEN last.res = EmptyPath
            ELSE IF bad # OkUnit THEN last.res = bad
            ELSE IF v \notin DOMAIN db THEN last.res = ChunkNotLoaded(v)
            ELSE IF AbsentSiblings(db, v) # {}
                 THEN last.res = ChunkNotLoaded(Deepest(AbsentSiblings(db, v)))
            ELSE /\ last.res = OkUnit
                 /\ \A k \in 1..Len(last.sp.indices) : last.sp.indices[k] \in DOMAIN db
                 /\ PairsOfProof(last.sp) \subseteq PairsOfStore(db)
\* extract met two absent siblings on the walk from a present target
C12_Witness ==
    /\ last.op = "extract" /\ last.res.err = "ChunkNotLoaded"
    /\ Addressable(last.path)
    /\ NodeAt(last.path).index \in DOMAIN db
    /\ Cardinality(AbsentSiblings(db, NodeAt(last.path).index)) >= 2
    /\ \E i \in DOMAIN db : i < NodeAt(last.path).index

\* the chunk a serialized proof carries for its k-th index (1-based)
Window(sp, k) == [j \in 1..BYTES_PER_CHUNK |-> sp.chunks[(k - 1) * BYTES_PER_CHUNK + j]]
Listed(sp) == {sp.indices[k] : k \in 1..Len(sp.indices)}
WellFormed(sp) == Len(sp.chunks) = BYTES_PER_CHUNK * Len(sp.indices)
NoDuplicates(sp) ==
    \A j, k \in 1..Len(sp.indices) : sp.indices[j] = sp.indices[k] => j = k

(* C13: load(sp) with len(chunks) = 32 * len(indices) and no duplicate
   indices returns Ok; afterwards every indices[k] maps to bytes
   [32k, 32k+32) of chunks, replacing any prior entry at that index, and every
   entry at an index not listed in sp is unchanged; Proof::new(sp) holds
   exactly the entries of sp. *)
C13_LoadWindows ==
    (last.op = "load" /\ WellFormed(last.sp) /\ NoDuplicates(last.sp)) =>
        /\ last.res = OkUnit
        /\ DOMAIN db = DOMAIN pre \cup Listed(last.sp)
        /\ \A k \in 1..Len(last.sp.indices) : db[last.sp.indices[k]] = Window(last.sp, k)
        /\ \A i \in DOMAIN pre \ Listed(last.sp) : db[i] = pre[i]
        /\ new(last.sp).res = OkUnit
        /\ PairsOfStore(new(last.sp).db) =
              {<<last.sp.indices[k], Window(last.sp, k)>> : k \in 1..Len(last.sp.indices)}
\* load of two different chunks at two indices replaced a prior entry
C13_Witness ==
    /\ last.op = "load" /\ WellFormed(last.sp) /\ NoDuplicates(last.sp)
    /\ Len(last.sp.indices) = 2
    /\ Window(last.sp, 1) # Window(last.sp, 2)
    /\ last.sp.indices[2] \in DOMAIN pre
    /\ pre[last.sp.indices[2]] # Window(last.sp, 2)

\* the error the specification asks load to report for a malformed proof
MalformedProof == [tag |-> "Err", err |-> "MalformedProof", idx |-> 0, el |-> NoElem]

(* C14: load of a SerializedProof whose chunks length is not exactly
   32 * len(indices) is reported as a MalformedProof error value: it is
   neither accepted as Ok nor a fault, and the store is left unchanged. *)
C14_LoadMalformed ==
    (last.op = "load" /\ ~WellFormed(last.sp)) =>
        /\ last.res = MalformedProof
        /\ db = pre

(* C15: is_valid(root) on a store in which index 0 is absent returns false
   (a value), for every such store, rather than faulting. *)
C15_IsValidNoRoot ==
    (last.op = "is_valid" /\ 0 \notin DOMAIN db) => last.ret = "false"

\* H(l || r), and the Merkle root of the subtree at i over the entries of d
H(l, r) == [j \in 1..BYTES_PER_CHUNK |-> HashPair(l[j], r[j])]
RECURSIVE MerkleRootOf(_, _)
MerkleRootOf(d, i) ==
    IF i \in DOMAIN d THEN d[i]
    ELSE H(MerkleRootOf(d, LeftOf(i)), MerkleRootOf(d, RightOf(i)))
\* the nodes of tree level h, and the nodes of all levels up to h
LevelNodes(h) == (Pow2(h) - 1)..(Pow2(h + 1) - 2)
NodesUpTo(h) == 0..(Pow2(h + 1) - 2)

(* C16: for a store holding exactly the 2^h nodes of one complete tree level
   h >= 1, fill() returns Ok and makes every ancestor present, root() equals
   the Merkle root of those chunks taken in index order, and
   is_valid(root()) is true. *)
C16_FillCompleteLevel ==
    \A h \in 1..MaxLevel :
        (last.op = "fill" /\ DOMAIN pre = LevelNodes(h)) =>
            /\ last.res = OkUnit
            /\ DOMAIN db = NodesUpTo(h)
            /\ \A i \in LevelNodes(h) : db[i] = pre[i]
            /\ root(db) = MerkleRootOf(pre, 0)
            /\ is_valid(db, root(db)) = "true"
\* fill ran on level 2 with chunks that tell the four leaves' order apart
C16_Witness ==
    /\ last.op = "fill" /\ DOMAIN pre = LevelNodes(2)
    /\ pre[3] # pre[4] /\ pre[5] # pre[6] /\ pre[3] # pre[5]
    /\ db[1] # db[2]

(* C17: for FixedVector<T,N> and VariableList<T,N>, get_node of any path
   whose first element is Index(k) with k >= N returns IndexOutOfBounds(k)
   whatever follows in the path; in a nested path whose outer indices are in
   bounds, the error carries the index of the first level at which the bound
   is exceeded. *)
C17_OutOfBounds ==
    (last.op = "get_node" /\ T.kind # "basic") =>
        /\ (/\ Len(last.path) > 0 /\ last.path[1].k = "Index"
            /\ last.path[1].n >= T.N) =>
                ErrOf(last.res) = IndexOutOfBounds(last.path[1].n)
        /\ OverlayError(T, last.path).err = "IndexOutOfBounds" =>
                ErrOf(last.res) = OverlayError(T, last.path)

\* items_per_chunk of a collection as the overlay computes it
ItemsPerChunk(t) == BYTES_PER_CHUNK \div min_repr_size(t.elem)
\* the node of position p of its own tree, before any shift by a parent
OwnLeaf(t, p) == Pow2(height(t)) - 1 + p \div ItemsPerChunk(t)

(* C18: for a collection with element type E and any p < N,
   get_node([Index(p)]) returns index = 2^h - 1 + floor(p / items_per_chunk)
   where h is the collection's own height(), size = E.min_repr_size(),
   offset = (p mod items_per_chunk) * E.min_repr_size(), height = E.height(),
   is_list = E.is_list(), ident = Index(p), with
   items_per_chunk = 32 / E.min_repr_size(). *)
C18_TerminalNode ==
    (/\ last.op = "get_node" /\ T.kind # "basic" /\ Len(last.path) = 1
     /\ last.path[1].k = "Index" /\ last.path[1].n < T.N) =>
        LET p == last.path[1].n IN
        /\ last.res.tag = "Ok"
        /\ ~HeightFaults(T)
        /\ last.res.node =
              [index |-> OwnLeaf(T, p),
               ident |-> Index(p),
               size |-> min_repr_size(T.elem),
               offset |-> (p % ItemsPerChunk(T)) * min_repr_size(T.elem),
               height |-> height(T.elem),
               is_list |-> (T.elem.kind = "list")]

(* C19: for a collection and a path [Index(p)] ++ rest with p < N and rest
   non-empty, get_node returns E.get_node(rest) with every field kept except
   index, which becomes subtree_index_to_general(2^h - 1 +
   floor(p / items_per_chunk), child.index); errors from E.get_node(rest) are
   returned unchanged. VariableList<VariableList<VariableList<U256,U2>,U2>,U4>
   resolves [3,0,1] to index 176 and [0,"len"] to index 16. *)
C19_NestedNode ==
    (/\ last.op = "get_node" /\ T.kind # "basic" /\ Len(last.path) > 1
     /\ last.path[1].k = "Index" /\ last.path[1].n < T.N) =>
        LET p == last.path[1].n
            child == get_node(T.elem, Tail(last.path))
        IN  /\ last.res.tag # "Panic"
            /\ ~HeightFaults(T)
            /\ child.tag # "Ok" => last.res = child
            /\ child.tag = "Ok" =>
                  /\ last.res.tag = "Ok"
                  /\ last.res.node =
                        [child.node EXCEPT !.index =
                            subtree_index_to_general(OwnLeaf(T, p), child.node.index)]
            /\ T = VariableList(VariableList(VariableList(U256, 2), 2), 4) =>
                  /\ last.path = <<Index(3), Index(0), Index(1)>> => last.res.node.index = 176
                  /\ last.path = <<Index(0), Ident("len")>> => last.res.node.index = 16

\* ceil(a / b) and ceil(log2(n)) for b, n >= 1
CeilDiv(a, b) == (a + b - 1) \div b
RECURSIVE CeilLog2(_)
CeilLog2(n) == IF n <= 1 THEN 0 ELSE 1 + CeilLog2(CeilDiv(n, 2))

(* C20: for every N >= 1 and element type E, FixedVector<E,N>::height()
   equals ceil(log2(num_chunks)) and VariableList<E,N>::height() equals
   ceil(log2(num_chunks)) + 1, where num_chunks = ceil(N / items_per_chunk)
   and items_per_chunk = 32 / E.min_repr_size() when E.height() = 0 and 1
   otherwise. *)
C20_HeightCeil ==
    (last.op = "height" /\ T.kind # "basic") =>
        /\ last.res = OkUnit
        /\ LET items_per_chunk ==
                   IF height(T.elem) = 0 THEN BYTES_PER_CHUNK \div min_repr_size(T.elem) ELSE 1
               num_chunks == CeilDiv(T.N, items_per_chunk)
           IN  last.val = <<CeilLog2(num_chunks) + (IF T.kind = "list" THEN 1 ELSE 0)>>

(* C21: for each primitive type (bool, u8, u16, u32, u64, u128, U256),
   get_node of the empty path returns index 0, size = the type's width in
   bytes (its min_repr_size()), offset 0, height 0, is_list false, and
   get_node of any non-empty path returns InvalidPath(first path element). *)
C21_PrimitiveNode ==
    (last.op = "get_node" /\ T.kind = "basic") =>
        IF last.path = <<>>
        THEN /\ last.res.tag = "Ok"
             /\ last.res.node.index = 0
             /\ last.res.node.size = T.bits \div 8
             /\ last.res.node.size = min_repr_size(T)
             /\ last.res.node.offset = 0
             /\ last.res.node.height = 0
             /\ last.res.node.is_list = FALSE
        ELSE ErrOf(last.res) = InvalidPath(last.path[1])

(* C22: on a VariableList a leading "len" returns index 2, size 32, offset 0,
   height 0, is_list false; on a FixedVector a leading "len", and on either
   collection any other leading identifier, returns InvalidPath of that
   element. *)
C22_IdentPaths ==
    (/\ last.op = "get_node" /\ T.kind # "basic"
     /\ Len(last.path) > 0 /\ last.path[1].k = "Ident") =>
        IF T.kind = "list" /\ last.path[1] = Ident("len")
        THEN /\ last.res.tag = "Ok"
             /\ last.res.node.index = 2 /\ last.res.node.size = 32
             /\ last.res.node.offset = 0 /\ last.res.node.height = 0
             /\ last.res.node.is_list = FALSE
        ELSE ErrOf(last.res) = InvalidPath(last.path[1])
\* get_node answered a leading "len" on a FixedVector whose height() faults
C22_Witness ==
    /\ last.op = "get_node" /\ T.kind = "vector" /\ HeightFaults(T)
    /\ Len(last.path) > 1 /\ last.path[1] = Ident("len")
    /\ last.res.err = "InvalidPath"

\* the node of field j of the struct T, and the bytes of the chunk it covers
FieldNode(j) == struct_get_node(T, <<Ident(FieldNames[j])>>).node
FieldRange(j) == FieldNode(j).offset .. (FieldNode(j).offset + FieldNode(j).size - 1)
RECURSIVE SumSizes(_, _)
SumSizes(fields, j) == IF j = 0 THEN 0 ELSE SumSizes(fields, j - 1) + fields[j].bits \div 8

(* C23: for any struct whose fields all share one chunk, every field resolves
   to the same index, offsets accumulate from 0 in declaration order, and the
   byte ranges [offset, offset+size) of the fields partition [0, 32) without
   overlap. *)
C23_PackingPartition ==
    last.op = "struct_get_node" =>
        LET n == Len(T.fields) IN
        /\ \A j \in 1..n : struct_get_node(T, <<Ident(FieldNames[j])>>).tag = "Ok"
        /\ \A j \in 1..n : FieldNode(j).index = FieldNode(1).index
        /\ \A j \in 1..n : FieldNode(j).offset = SumSizes(T.fields, j - 1)
        /\ \A j, k \in 1..n : j # k => FieldRange(j) \cap FieldRange(k) = {}
        /\ UNION {FieldRange(j) : j \in 1..n} = 0..(BYTES_PER_CHUNK - 1)
(* C23 as amended: for any struct whose fields all share one chunk, every
   field resolves to the same index, offsets accumulate from 0 in declaration
   order, and the byte ranges [offset, offset+size) of the fields are pairwise
   disjoint and together cover exactly [0, total size of the fields), which
   lies within [0, 32); the bytes after the last field belong to no field. *)
C23_PackingDisjoint ==
    last.op = "struct_get_node" =>
        LET n == Len(T.fields) IN
        /\ \A j \in 1..n : struct_get_node(T, <<Ident(FieldNames[j])>>).tag = "Ok"
        /\ \A j \in 1..n : FieldNode(j).index = FieldNode(1).index
        /\ \A j \in 1..n : FieldNode(j).offset = SumSizes(T.fields, j - 1)
        /\ \A j \in 1..n : FieldNode(j).size = T.fields[j].bits \div 8
        /\ \A j, k \in 1..n : j # k => FieldRange(j) \cap FieldRange(k) = {}
        /\ UNION {FieldRange(j) : j \in 1..n} = 0..(SumSizes(T.fields, n) - 1)
        /\ SumSizes(T.fields, n) <= BYTES_PER_CHUNK
\* get_node returned the third field of {a: u8, b: u16, c: u32}
C23_Witness ==
    /\ last.op = "struct_get_node"
    /\ T = Struct(<<Basic(8), Basic(16), Basic(32)>>)
    /\ last.path = <<Ident("c")>>
    /\ last.res.tag = "Ok" /\ last.res.node.offset = 3 /\ last.res.node.size = 4

(* C24: refresh() returns a value (Ok, or ChunkNotLoaded for the child it
   lacks) on every store, the empty store and any store in which index 0 is
   neither present nor derivable from present sibling pairs included, and
   never faults. *)
C24_RefreshReturns ==
    last.op = "refresh" =>
        \/ last.res = OkUnit
        \/ /\ last.res.tag = "Err" /\ last.res.err = "ChunkNotLoaded"
           /\ last.res.idx \notin DOMAIN db

(* C25: whenever refresh() returns Ok, an immediately following refresh()
   leaves the store unchanged. *)
C25_RefreshFixedPoint ==
    (last.op = "refresh" /\ last.res = OkUnit) => refresh(db).db = db

(* C26: fill() and refresh() are deterministic: two runs from the same store
   contents end in the same store and the same result, whatever order the
   underlying map enumerates its keys and whatever order equal worklist
   entries are visited. Every run, under every enumeration, ends as the run
   under the descending enumeration does. *)
C26_Deterministic ==
    /\ last.op = "fill" => [db |-> db, res |-> last.res] = fill(pre)
    /\ last.op = "refresh" => [db |-> db, res |-> last.res] = refresh(pre)
\* refresh ran under an enumeration that is not sorted, met equal worklist
\* entries, and changed the store
C26_Witness ==
    /\ last.op = "refresh" /\ db # pre
    /\ Len(last.val) >= 4
    /\ last.val[1] < last.val[2] /\ last.val[3] > last.val[4]
    /\ \E i \in DOMAIN pre : i > 0 /\ SiblingOf(i) \in DOMAIN pre

(* C27: fill() terminates on every finite store and returns Ok(()), never
   ChunkNotLoaded, even though it appends each newly computed parent to the
   worklist it is iterating; every parent it appends is itself later visited,
   so that its own parent is created when its sibling is present, and a
   second fill() finds nothing to add. *)
C27_FillTerminates ==
    last.op = "fill" =>
        /\ last.res = OkUnit
        /\ \A i \in DOMAIN db \ DOMAIN pre :
              (i > 0 /\ SiblingOf(i) \in DOMAIN db) => ParentOf(i) \in DOMAIN db
        /\ fill(db) = [db |-> db, res |-> OkUnit]
\* fill appended the parents 1 and 2 and, visiting them, created the root
C27_Witness ==
    /\ last.op = "fill"
    /\ {0, 1, 2} \subseteq DOMAIN db \ DOMAIN pre
    /\ \E i \in DOMAIN pre : i > MaxStoreIndex - 2

\* the depth of node v, and the siblings of the nodes from v up to, and
\* excluding, the root, bottom-up
RECURSIVE DepthOfNode(_)
DepthOfNode(v) == IF v = 0 THEN 0 ELSE 1 + DepthOfNode(ParentOf(v))
RECURSIVE SiblingsUp(_)
SiblingsUp(v) == IF v = 0 THEN <<>> ELSE <<SiblingOf(v)>> \o SiblingsUp(ParentOf(v))

(* C28: whenever extract(path) succeeds for a target at index v, indices is v
   followed by the sibling of each node on the path from v up to but
   excluding the root, bottom-up: exactly depth(v)+1 pairwise-distinct
   indices, no sibling being skipped; and chunks is the concatenation of the
   store's chunks for those indices in the same order. *)
C28_ExtractWalk ==
    (last.op = "extract" /\ last.res = OkUnit) =>
        LET v == NodeAt(last.path).index
            ind == last.sp.indices
        IN  /\ ind = <<v>> \o SiblingsUp(v)
            /\ Len(ind) = DepthOfNode(v) + 1
            /\ \A j, k \in 1..Len(ind) : ind[j] = ind[k] => j = k
            /\ Len(last.sp.chunks) = BYTES_PER_CHUNK * Len(ind)
            /\ \A k \in 1..Len(ind) : Window(last.sp, k) = db[ind[k]]
\* extract succeeded for a target two levels below the root whose chunk
\* differs from its sibling's
C28_Witness ==
    /\ last.op = "extract" /\ last.res = OkUnit
    /\ Len(last.sp.indices) = 3
    /\ DepthOfNode(NodeAt(last.path).index) = 2
    /\ Window(last.sp, 1) # Window(last.sp, 2)

(* C29: for every collection type and every in-bounds position p < N, the
   index returned by get_node([Index(p)]) is a node of the collection's own
   tree at depth exactly height(): 2^h - 1 <= index <= 2^(h+1) - 2, and for a
   VariableList it lies in the data (left) subtree, never in the subtree of
   the length node at index 2. *)
C29_LeafDepth ==
    (/\ last.op = "get_node" /\ T.kind # "basic" /\ Len(last.path) = 1
     /\ last.path[1].k = "Index" /\ last.path[1].n < T.N
     /\ last.res.tag = "Ok") =>
        LET h == height(T)
            index == last.res.node.index
        IN  /\ Pow2(h) - 1 <= index
            /\ index <= Pow2(h + 1) - 2
            /\ T.kind = "list" => index <= Pow2(h) - 1 + Pow2(h - 1) - 1

(* C30: for every collection type, the map from in-bounds positions p < N to
   (index, [offset, offset+size)) sends distinct positions to
   pairwise-disjoint byte ranges, each contained in [0, 32) of a single chunk
   (offset + size <= 32). *)
C30_PositionsDisjoint ==
    (/\ last.op = "get_node" /\ T.kind # "basic" /\ Len(last.path) = 1
     /\ last.path[1].k = "Index" /\ last.path[1].n < T.N
     /\ last.res.tag = "Ok") =>
        LET p == last.path[1].n
            node == last.res.node
        IN  /\ node.offset >= 0
            /\ node.size > 0
            /\ node.offset + node.size <= BYTES_PER_CHUNK
            /\ \A q \in 0..(T.N - 1) :
                  LET other == get_node(T, <<Index(q)>>).node IN
                  q # p =>
                      \/ other.index # node.index
                      \/ other.offset + other.size <= node.offset
                      \/ node.offset + node.size <= other.offset
\* an element that shares its chunk with an earlier element of the collection
C30_Witness ==
    /\ last.op = "get_node" /\ T.kind # "basic" /\ Len(last.path) = 1
    /\ last.path[1].k = "Index" /\ last.path[1].n < T.N
    /\ last.res.tag = "Ok"
    /\ last.res.node.offset > 0
    /\ last.path[1].n >= 2
    /\ get_node(T, <<Index(0)>>).node.index = last.res.node.index

(* ---------------- the store on its own, from any contents --------------- *)
ZeroChunk == UniformChunk(0)
StoreInit ==
    /\ \E S \in SUBSET (0..MaxStoreIndex) : db = [i \in S |-> ZeroChunk]
    /\ T = "TA"
    /\ pre = db
    /\ last = NoOp
StoreNext == Fill \/ Refresh \/ IsValid \/ Return
SpecStore == StoreInit /\ [][StoreNext]_vars

(* ------------------- load, from any small store ------------------------ *)
\* largest node index, and largest number of indices, of the proofs SpecLoad loads
MaxLoadIndex == 1
MaxLoadLen == 2
LoadAny == LoadFrom(ProofsOver(0..MaxLoadIndex, MaxLoadLen))
LoadInit ==
    /\ \E S \in SUBSET (0..MaxLoadIndex) : db = [i \in S |-> ZeroChunk]
    /\ T = "TA"
    /\ pre = db
    /\ last = NoOp
LoadNext == LoadAny \/ Return
SpecLoad == LoadInit /\ [][LoadNext]_vars

(* ---------------- fill, from one complete tree level ------------------- *)
LevelInit ==
    /\ \E h \in 1..MaxLevel : db \in [LevelNodes(h) -> DataChunks]
    /\ T = "TA"
    /\ pre = db
    /\ last = NoOp
LevelNext == Fill \/ IsValid \/ Return
SpecLevel == LevelInit /\ [][LevelNext]_vars

(* --------------------- the overlay on its own --------------------------- *)
\* largest N of the generated collection types, largest position and length
\* of the paths handed to get_node
MaxN == 3
MaxOverlayPos == 3
MaxPathLen == 3
Collections(elems) ==
    {VariableList(e, n) : e \in elems, n \in 1..MaxN}
        \cup {FixedVector(e, n) : e \in elems, n \in 1..MaxN}
\* the types of the overlay's own tests, and collections of up to two levels
TestTypes ==
    {VariableList(VariableList(VariableList(U256, 2), 2), 4),
     FixedVector(FixedVector(FixedVector(U256, 16), 2), 1),
     VariableList(U256, 8), FixedVector(U256, 8), FixedVector(Basic(8), 32)}
\* bool and u8 (8 bits), u16, u32, u64, u128, U256
Primitives == {Basic(8), Basic(16), Basic(32), U64, U128, U256}
OverlayTypes ==
    Primitives \cup TestTypes \cup Collections({U64, U128, U256})
        \cup Collections(Collections({U128, U256}))
OverlayPaths ==
    SeqsUpTo({Index(p) : p \in 0..MaxOverlayPos} \cup {Ident("len"), Ident("other")},
             MaxPathLen)

\* T::get_node(path); in SpecOverlay the variable T is the overlay type itself
GetNode ==
    /\ Idle
    /\ \E path \in OverlayPaths :
        /\ last' = Op("get_node", path, <<>>, None, get_node(T, path), "", <<>>, NoProof)
        /\ pre' = db
        /\ UNCHANGED <<db, T>>
\* T::height()
Height ==
    /\ Idle
    /\ last' = (IF HeightFaults(T)
                THEN Op("height", <<>>, <<>>, None, Panic, "", <<>>, NoProof)
                ELSE Op("height", <<>>, <<>>, None, OkUnit, "", <<height(T)>>, NoProof))
    /\ pre' = db
    /\ UNCHANGED <<db, T>>
OverlayInit ==
    /\ db = EmptyDb
    /\ T \in OverlayTypes
    /\ pre = EmptyDb
    /\ last = NoOp
OverlayNext == GetNode \/ Height \/ Return
SpecOverlay == OverlayInit /\ [][OverlayNext]_vars

(* ------------------ the overlay of a packed struct ---------------------- *)
\* largest number of fields of the generated structs
MaxFields == 3
PackedStructs ==
    {Struct(fs) : fs \in {q \in SeqsUpTo(Primitives, MaxFields) :
                             Len(q) > 0 /\ SumSizes(q, Len(q)) <= BYTES_PER_CHUNK}}
StructPaths ==
    LET firsts == {Ident(FieldNames[j]) : j \in 1..(MaxFields + 1)}
                      \cup {Ident("len"), Index(0)}
    IN  {<<e>> : e \in firsts} \cup {<<e, Index(0)>> : e \in firsts}
\* S::get_node(path) of a struct S; the variable T is the struct itself
StructGetNode ==
    /\ Idle
    /\ \E path \in StructPaths :
        /\ last' = Op("struct_get_node", path, <<>>, None, struct_get_node(T, path),
                      "", <<>>, NoProof)
        /\ pre' = db
        /\ UNCHANGED <<db, T>>
StructInit ==
    /\ db = EmptyDb
    /\ T \in PackedStructs
    /\ pre = EmptyDb
    /\ last = NoOp
StructNext == StructGetNode \/ Return
SpecStruct == StructInit /\ [][StructNext]_vars

(* ------------- fill and refresh under any key enumeration --------------- *)
\* largest node index of the stores SpecOrder starts from
MaxOrderIndex == 4
\* the orders in which a HashMap may enumerate the keys S
RECURSIVE Enumerations(_)
Enumerations(S) ==
    IF S = {} THEN {<<>>}
    ELSE UNION {{<<x>> \o p : p \in Enumerations(S \ {x})} : x \in S}
FillIn ==
    /\ Idle
    /\ \E keys \in Enumerations(nodes(db)) :
        LET r == fill_in(db, keys) IN
        /\ db' = r.db
        /\ pre' = db
        /\ last' = Op("fill", <<>>, <<>>, None, r.res, "", keys, NoProof)
        /\ UNCHANGED T
RefreshIn ==
    /\ Idle
    /\ \E keys \in Enumerations(nodes(db)) :
        LET r == refresh_in(db, keys) IN
        /\ db' = r.db
        /\ pre' = db
        /\ last' = Op("refresh", <<>>, <<>>, None, r.res, "", keys, NoProof)
        /\ UNCHANGED T
OrderInit ==
    /\ \E S \in SUBSET (0..MaxOrderIndex) : db = [i \in S |-> ZeroChunk]
    /\ T = "TA"
    /\ pre = db
    /\ last = NoOp
OrderNext == FillIn \/ RefreshIn \/ Return
SpecOrder == OrderInit /\ [][OrderNext]_vars
====
